---- MODULE Spec2Model ----
(***************************************************************************)
(* The class-cart front end: three pages (catalog, cart, checkout), each a *)
(* Vue instance over plain data, sharing the browser's localStorage under  *)
(* the keys 'classCart' and 'lastOrder'.  A page's data lives only while   *)
(* the page is shown; entering a page constructs its data afresh.          *)
(* Strings are sequences of one-character strings.                         *)
(***************************************************************************)
EXTENDS Integers, Sequences, FiniteSets, TLC

VARIABLES
    page,             \* the page shown: "catalog", "cart" or "checkout"
    products,         \* catalog page: data.products (<<>> on the other pages)
    searchQuery,      \* catalog page: data.searchQuery (v-model of the search box)
    sortBy,           \* catalog page: data.sortBy (v-model of the sort select)
    cart,             \* data.cart of the page shown: entry objects, each with its identity ref
    removed,          \* the identity of the entry object removeFromCart took out of the
                      \* cart last on this page: the row a second click can still pass
    store,            \* localStorage: the value under the key 'classCart' (a write under
                      \* 'lastOrder', which nothing reads back, is kept in last.order)
    checkoutForm,     \* data.checkoutForm of the cart or checkout page
    validationErrors, \* cart page: data.validationErrors
    checkoutSuccess,  \* cart page: data.checkoutSuccess
    isSubmitting,     \* cart page: data.isSubmitting
    timer,            \* cart page: the number of pending setTimeout callbacks of submitCheckout
    accepted,         \* cart page: the form and the cart as they were when the pending
                      \* submitCheckout was accepted, Null with none pending; the page
                      \* keeps no such copy, this records what was submitted
    last              \* the handler that ran last: its argument, whether it passed its
                      \* checks, the alert it showed and the text it wrote under 'lastOrder'

vars == <<page, products, searchQuery, sortBy, cart, removed, store, checkoutForm,
          validationErrors, checkoutSuccess, isSubmitting, timer, accepted, last>>

\* Everything but the record of the last handler.
vars_page == <<page, products, searchQuery, sortBy, cart, removed, store, checkoutForm,
               validationErrors, checkoutSuccess, isSubmitting, timer, accepted>>

\* ---------------------------------------------------------------- bounds

\* How many of the seed's ten lessons the model's catalog holds.
NumProducts == 1

\* The seed capacities are capped at this many spaces.
MaxSpaces == 2

\* The longest cart an earlier session has left under 'classCart'.
MaxCartLen == 2

\* The longest text typed into the catalog page's search box.
MaxQueryLen == 2

\* ---------------------------------------------------------------- values

\* localStorage.getItem of a key that is not set.
Null == [kind |-> "null"]

Min(a, b) == IF a < b THEN a ELSE b

SeedProducts ==
    <<
       [id |-> 1,
        name |-> <<"M","o","b","i","l","e"," ","A","p","p"," ","D","e","v","e","l","o","p","m","e","n","t">>,
        Location |-> <<"B","i","r","m","i","n","g","h","a","m">>,
        price |-> <<"£","8","8",".","9","9">>,
        spaces |-> 10, quantity |-> 1, inCart |-> FALSE],
       [id |-> 2,
        name |-> <<"A","r","t","i","f","i","c","i","a","l"," ","I","n","t","e","l","l","i","g","e","n","c","e"," ","&"," ","M","a","c","h","i","n","e"," ","L","e","a","r","n","i","n","g">>,
        Location |-> <<"W","e","s","t","-","H","a","m">>,
        price |-> <<"£","1","4","9",".","9","9">>,
        spaces |-> 8, quantity |-> 1, inCart |-> FALSE],
       [id |-> 3,
        name |-> <<"C","l","o","u","d"," ","C","o","m","p","u","t","i","n","g"," ","w","i","t","h"," ","A","W","S"," ","o","r"," ","A","z","u","r","e"," ","L","a","b"," ","C","o","u","r","s","e">>,
        Location |-> <<"N","e","w","c","a","s","t","l","e">>,
        price |-> <<"£","9","9",".","9","9">>,
        spaces |-> 5, quantity |-> 1, inCart |-> FALSE],
       [id |-> 4,
        name |-> <<"C","y","b","e","r","s","e","c","u","r","i","t","y"," ","B","a","s","i","c","s">>,
        Location |-> <<"B","r","i","s","t","o","l">>,
        price |-> <<"£","2","5","0">>,
        spaces |-> 5, quantity |-> 1, inCart |-> FALSE],
       [id |-> 5,
        name |-> <<"U","I","/","U","X"," ","D","e","s","i","g","n"," ","P","r","i","n","c","i","p","l","e","s">>,
        Location |-> <<"B","r","e","n","t","f","o","r","d">>,
        price |-> <<"£","2","2","0">>,
        spaces |-> 5, quantity |-> 1, inCart |-> FALSE],
       [id |-> 6,
        name |-> <<"P","r","o","j","e","c","t"," ","M","a","n","a","g","e","m","e","n","t">>,
        Location |-> <<"M","a","n","c","h","e","s","t","e","r">>,
        price |-> <<"£","2","5","0">>,
        spaces |-> 5, quantity |-> 1, inCart |-> FALSE],
       [id |-> 7,
        name |-> <<"C","o","m","p","u","t","e","r"," ","S","c","i","e","n","c","e">>,
        Location |-> <<"V","i","l","l","a","-","p","a","r","k">>,
        price |-> <<"£","2","0","0">>,
        spaces |-> 10, quantity |-> 1, inCart |-> FALSE],
       [id |-> 8,
        name |-> <<"D","a","t","a","b","a","s","e"," ","D","e","s","i","g","n"," ","&"," ","S","Q","L">>,
        Location |-> <<"L","e","i","c","e","s","t","e","r">>,
        price |-> <<"£","1","9","9">>,
        spaces |-> 7, quantity |-> 1, inCart |-> FALSE],
       [id |-> 9,
        name |-> <<"B","a","c","k","e","n","d"," ","D","e","v","e","l","o","p","m","e","n","t"," ","w","i","t","h"," ","N","o","d","e",".","j","s">>,
        Location |-> <<"N","o","r","w","i","c","h">>,
        price |-> <<"£","2","0","9">>,
        spaces |-> 5, quantity |-> 1, inCart |-> FALSE],
       [id |-> 10,
        name |-> <<"P","y","t","h","o","n"," ","P","r","o","g","r","a","m","m","i","n","g">>,
        Location |-> <<"L","i","v","e","r","p","o","o","l">>,
        price |-> <<"£","1","5","0">>,
        spaces |-> 12, quantity |-> 1, inCart |-> FALSE]
    >>

\* The catalog the model runs on: the first NumProducts lessons of the seed,
\* each with its capacity capped at MaxSpaces.
InitialProducts ==
    [i \in 1..NumProducts |->
        [SeedProducts[i] EXCEPT !.spaces = Min(@, MaxSpaces)]]

\* Values the quantity input of a lesson card may hold.
QuantityInputs == (-1)..(MaxSpaces + 1)

\* ---------------------------------------------------------------- JSON and localStorage

\* JSON.stringify(this.cart): the text holds every own field of every entry;
\* an object's identity is not part of the text.
JSONstringify(c) ==
    [kind |-> "json",
     json |-> [i \in 1..Len(c) |->
                 [f \in (DOMAIN c[i]) \ {"ref"} |-> c[i][f]]]]

\* JSON.parse(text): fresh objects, one per element of the text.
JSONparse(text) ==
    [i \in 1..Len(text.json) |-> ("ref" :> i) @@ text.json[i]]

\* A saveCart that writes nothing.
saveCart_Skipped(st, c) == st

\* localStorage.setItem('classCart', JSON.stringify(this.cart))
saveCart(st, c) == [st EXCEPT !.classCart = JSONstringify(c)]

\* A text under 'classCart' that is not JSON: JSON.parse throws a SyntaxError on it.
Corrupt == [kind |-> "corrupt"]

NoError == "none"

\* The exception JSON.parse(text) throws, NoError when it returns.
JSONparseThrows(text) == IF text = Corrupt THEN "SyntaxError" ELSE NoError

\* if (savedCart) { this.cart = JSON.parse(savedCart); }
\* When JSON.parse throws, the assignment to this.cart does not happen.
loadCart(st, c) ==
    IF st.classCart = Null THEN c
    ELSE IF JSONparseThrows(st.classCart) # NoError THEN c
    ELSE JSONparse(st.classCart)

\* The exception that leaves loadCart(), and with it the mounted() hook that
\* called it: neither has a try.
loadCartThrows(st) ==
    IF st.classCart = Null THEN NoError ELSE JSONparseThrows(st.classCart)

\* The exception that leaves the mounted() hook of a page: the catalog page
\* has no hook.
mountedThrows(pg, st) == IF pg = "catalog" THEN NoError ELSE loadCartThrows(st)

\* ---------------------------------------------------------------- array helpers

\* A find whose callback never matches.
FindById_NeverMatches(c, id) == 0

\* this.cart.find(item => item.id === product.id): the position (from 1) of
\* the first entry with that id, 0 when there is none.
FindById(c, id) ==
    IF \E i \in 1..Len(c) : c[i].id = id
    THEN CHOOSE i \in 1..Len(c) :
            c[i].id = id /\ \A j \in 1..(i - 1) : c[j].id # id
    ELSE 0

\* A search that stops at the last index when it has not found the object.
IndexOf_StopsAtLast(c, item) ==
    IF \E i \in 1..Len(c) : c[i].ref = item
    THEN (CHOOSE i \in 1..Len(c) :
            c[i].ref = item /\ \A j \in 1..(i - 1) : c[j].ref # item) - 1
    ELSE Len(c) - 1

\* this.cart.indexOf(item): the index (from 0) of the object of identity
\* item, which indexOf tells by identity, -1 when the cart does not hold it.
IndexOf(c, item) ==
    IF \E i \in 1..Len(c) : c[i].ref = item
    THEN (CHOOSE i \in 1..Len(c) :
            c[i].ref = item /\ \A j \in 1..(i - 1) : c[j].ref # item) - 1
    ELSE -1

\* if (index > -1)
Found(index) == index > -1

\* this.cart.splice(index, 1): a negative index counts from the end.
Splice(c, index) ==
    LET start == IF index < 0 THEN (IF Len(c) + index < 0 THEN 0 ELSE Len(c) + index)
                 ELSE Min(index, Len(c))
    IN  [i \in 1..(Len(c) - (IF start < Len(c) THEN 1 ELSE 0)) |->
            IF i <= start THEN c[i] ELSE c[i + 1]]

\* ---------------------------------------------------------------- page entry

NoForm == <<>>
NoErrors == <<>>

CartForm == [name |-> <<>>, email |-> <<>>, address |-> <<>>]

CheckoutForm ==
    [name |-> <<>>, email |-> <<>>, phone |-> <<>>, address |-> <<>>, payment |-> <<>>]

\* index.html: the catalog page's data; the page has no mounted hook and
\* does not read localStorage.
EnterCatalog ==
    /\ page' = "catalog"
    /\ products' = InitialProducts
    /\ searchQuery' = <<>>
    /\ sortBy' = ""
    /\ cart' = <<>>
    /\ removed' = {}
    /\ checkoutForm' = NoForm
    /\ validationErrors' = NoErrors
    /\ checkoutSuccess' = FALSE
    /\ isSubmitting' = FALSE
    /\ timer' = 0
    /\ accepted' = Null

\* cart.html: the cart page's data, then mounted() { this.loadCart(); }
EnterCart(st) ==
    /\ page' = "cart"
    /\ products' = <<>>
    /\ searchQuery' = <<>>
    /\ sortBy' = ""
    /\ cart' = loadCart(st, <<>>)
    /\ removed' = {}
    /\ checkoutForm' = CartForm
    /\ validationErrors' = NoErrors
    /\ checkoutSuccess' = FALSE
    /\ isSubmitting' = FALSE
    /\ timer' = 0
    /\ accepted' = Null

\* checkout.html: the checkout page's data, then mounted() { this.loadCart(); }
EnterCheckout(st) ==
    /\ page' = "checkout"
    /\ products' = <<>>
    /\ searchQuery' = <<>>
    /\ sortBy' = ""
    /\ cart' = loadCart(st, <<>>)
    /\ removed' = {}
    /\ checkoutForm' = CheckoutForm
    /\ validationErrors' = NoErrors
    /\ checkoutSuccess' = FALSE
    /\ isSubmitting' = FALSE
    /\ timer' = 0
    /\ accepted' = Null

Enter(pg, st) ==
    CASE pg = "catalog" -> EnterCatalog
      [] pg = "cart" -> EnterCart(st)
      [] pg = "checkout" -> EnterCheckout(st)

Pages == {"catalog", "cart", "checkout"}

NoAlert == "none"

NoArg == [none |-> TRUE]

\* What a handler did: op names it, arg is its argument, ok says whether it
\* passed its checks, alert is the message of the alert() it showed, order the text it wrote
\* with localStorage.setItem('lastOrder', ...), Null when it wrote none,
\* uncaught the exception that left it, NoError when it returned.
\* The program never reads 'lastOrder' back, so the write is kept here, with
\* the step that made it, and not in store.
Did(op, arg, ok, alert) ==
    [op |-> op, arg |-> arg, ok |-> ok, alert |-> alert, order |-> Null,
     uncaught |-> NoError]

Init ==
    /\ store = [classCart |-> Null]
    /\ page = "catalog"
    /\ products = InitialProducts
    /\ searchQuery = <<>>
    /\ sortBy = ""
    /\ cart = <<>>
    /\ removed = {}
    /\ checkoutForm = NoForm
    /\ validationErrors = NoErrors
    /\ checkoutSuccess = FALSE
    /\ isSubmitting = FALSE
    /\ timer = 0
    /\ accepted = Null
    /\ last = Did("open", [page |-> "catalog"], TRUE, NoAlert)

\* The user opens or reloads a page by its address.
OpenPage(pg) ==
    /\ Enter(pg, store)
    /\ UNCHANGED <<store>>
    /\ last' = [Did("open", [page |-> pg], TRUE, NoAlert)
                  EXCEPT !.uncaught = mountedThrows(pg, store)]

\* ---------------------------------------------------------------- catalog page

\* addToCart's check without its capacity half.
CanAdd_NoCapacityCheck(product) == product.quantity > 0

\* addToCart's check without its "> 0" half.
CanAdd_NoLowerBound(product) == product.spaces >= product.quantity

\* if (product.spaces >= product.quantity && product.quantity > 0)
CanAdd(product) == product.spaces >= product.quantity /\ product.quantity > 0

\* The identity of a new object: one that no object a click can still pass
\* has (the entries of the cart c and the removed entry in rem).
NewRef(c, rem) ==
    LET used == {c[i].ref : i \in 1..Len(c)} \cup rem
    IN  CHOOSE r \in 1..(Len(c) + 2) :
            r \notin used /\ \A s \in 1..(r - 1) : s \in used

\* const cartItem = { ...product, cartQuantity: product.quantity }
NewCartItem(product, ref) ==
    ("cartQuantity" :> product.quantity) @@ ("ref" :> ref) @@ product

\* An addToCart that adds the quantity twice to an entry it merges into.
CartAfterAdd_MergeDoubles(c, product, ref) ==
    LET existingItem == FindById(c, product.id)
    IN  IF existingItem # 0
        THEN [c EXCEPT ![existingItem].cartQuantity = @ + 2 * product.quantity]
        ELSE Append(c, NewCartItem(product, ref))

\* The cart after addToCart(product) has passed its check.
CartAfterAdd(c, product, ref) ==
    LET existingItem == FindById(c, product.id)
    IN  IF existingItem # 0
        THEN [c EXCEPT ![existingItem].cartQuantity = @ + product.quantity]
        ELSE Append(c, NewCartItem(product, ref))

\* An addToCart that takes one space whatever the quantity.
ProductAfterAdd_TakesOne(c, product) ==
    [product EXCEPT !.inCart = IF FindById(c, product.id) # 0 THEN @ ELSE TRUE,
                    !.spaces = @ - 1,
                    !.quantity = 1]

\* The product after addToCart(product) has passed its check.
ProductAfterAdd(c, product) ==
    [product EXCEPT !.inCart = IF FindById(c, product.id) # 0 THEN @ ELSE TRUE,
                    !.spaces = @ - product.quantity,
                    !.quantity = 1]

\* The user sets the quantity input of lesson p to q (v-model) and clicks
\* "Add to Cart": addToCart(product).
Catalog_addToCart(p, q) ==
    /\ page = "catalog"
    /\ LET product == [products[p] EXCEPT !.quantity = q]
       IN  IF CanAdd(product)
           THEN /\ cart' = CartAfterAdd(cart, product, NewRef(cart, removed))
                /\ products' = [products EXCEPT ![p] = ProductAfterAdd(cart, product)]
                /\ store' = saveCart(store, cart')
                /\ last' = Did("addToCart", [p |-> p, q |-> q], TRUE, NoAlert)
           ELSE /\ products' = [products EXCEPT ![p] = product]
                /\ UNCHANGED <<cart, store>>
                /\ last' = Did("addToCart", [p |-> p, q |-> q], FALSE, NoAlert)
    /\ UNCHANGED <<page, searchQuery, sortBy, accepted, removed, checkoutForm, validationErrors,
                   checkoutSuccess, isSubmitting, timer>>

\* const originalProduct = this.products.find(p => p.id === item.id)
FindProduct(ps, id) ==
    IF \E i \in 1..Len(ps) : ps[i].id = id
    THEN CHOOSE i \in 1..Len(ps) :
            ps[i].id = id /\ \A j \in 1..(i - 1) : ps[j].id # id
    ELSE 0

\* A removeFromCart that gives the spaces back and leaves the flag set.
ProductsAfterRemove_KeepsFlag(ps, item) ==
    LET originalProduct == FindProduct(ps, item.id)
    IN  IF originalProduct # 0
        THEN [ps EXCEPT ![originalProduct].spaces = @ + item.cartQuantity]
        ELSE ps

\* The products after removeFromCart(item) has found the item in the cart.
ProductsAfterRemove(ps, item) ==
    LET originalProduct == FindProduct(ps, item.id)
    IN  IF originalProduct # 0
        THEN [ps EXCEPT ![originalProduct].spaces = @ + item.cartQuantity,
                        ![originalProduct].inCart = FALSE]
        ELSE ps

\* removeFromCart(item) of the catalog page; item is the object's identity,
\* and where the handler reads the object it has found it in the cart.
Catalog_removeFromCart(item) ==
    /\ page = "catalog"
    /\ LET index == IndexOf(cart, item)
       IN  IF Found(index)
           THEN /\ products' = ProductsAfterRemove(products, cart[index + 1])
                /\ cart' = Splice(cart, index)
                /\ store' = saveCart(store, cart')
                /\ removed' = {item}
                /\ last' = Did("removeFromCart", [item |-> item], TRUE, NoAlert)
           ELSE /\ UNCHANGED <<products, cart, store, removed>>
                /\ last' = Did("removeFromCart", [item |-> item], FALSE, NoAlert)
    /\ UNCHANGED <<page, searchQuery, sortBy, accepted, checkoutForm, validationErrors,
                   checkoutSuccess, isSubmitting, timer>>

\* goToCart(): this.saveCart(); window.location.href = 'cart.html'
goToCart ==
    /\ page = "catalog"
    /\ store' = saveCart(store, cart)
    /\ Enter("cart", store')
    /\ last' = Did("goToCart", NoArg, TRUE, NoAlert)

\* ---------------------------------------------------------------- cart page

\* removeFromCart(item) of the cart page; item is the object's identity.
Cart_removeFromCart(item) ==
    /\ page = "cart"
    /\ LET index == IndexOf(cart, item)
       IN  IF Found(index)
           THEN /\ cart' = Splice(cart, index)
                /\ store' = saveCart(store, cart')
                /\ removed' = {item}
                /\ last' = Did("removeFromCart", [item |-> item], TRUE, NoAlert)
           ELSE /\ UNCHANGED <<cart, store, removed>>
                /\ last' = Did("removeFromCart", [item |-> item], FALSE, NoAlert)
    /\ UNCHANGED <<page, searchQuery, sortBy, accepted, products, checkoutForm, validationErrors,
                   checkoutSuccess, isSubmitting, timer>>

\* goToProducts(): this.saveCart(); window.location.href = 'index.html'
goToProducts ==
    /\ page = "cart"
    /\ store' = saveCart(store, cart)
    /\ Enter("catalog", store')
    /\ last' = Did("goToProducts", NoArg, TRUE, NoAlert)

\* ---------------------------------------------------------------- strings and numbers

Space == " "

\* String.prototype.trim(): the string without its leading and trailing blanks.
RECURSIVE TrimStart(_)
TrimStart(s) ==
    IF s # <<>> /\ Head(s) = Space THEN TrimStart(Tail(s)) ELSE s

RECURSIVE TrimEnd(_)
TrimEnd(s) ==
    IF s # <<>> /\ s[Len(s)] = Space THEN TrimEnd(SubSeq(s, 1, Len(s) - 1)) ELSE s

Trim(s) == TrimEnd(TrimStart(s))

\* A run of one or more characters, none of them a blank or "@": [^\s@]+
NoSpaceAt(s) == s # <<>> /\ \A i \in 1..Len(s) : s[i] \notin {Space, "@"}

\* emailRegex.test(s) for /^[^\s@]+@[^\s@]+\.[^\s@]+$/
EmailRegexTest(s) ==
    \E i, j \in 1..Len(s) :
        /\ i < j
        /\ s[i] = "@"
        /\ s[j] = "."
        /\ NoSpaceAt(SubSeq(s, 1, i - 1))
        /\ NoSpaceAt(SubSeq(s, i + 1, j - 1))
        /\ NoSpaceAt(SubSeq(s, j + 1, Len(s)))

\* String.prototype.replace(ch, ''): the string without the first ch in it.
RECURSIVE Replace(_, _)
Replace(s, ch) ==
    IF s = <<>> THEN <<>>
    ELSE IF Head(s) = ch THEN Tail(s)
    ELSE <<Head(s)>> \o Replace(Tail(s), ch)

DigitValue ==
    ("0" :> 0) @@ ("1" :> 1) @@ ("2" :> 2) @@ ("3" :> 3) @@ ("4" :> 4) @@
    ("5" :> 5) @@ ("6" :> 6) @@ ("7" :> 7) @@ ("8" :> 8) @@ ("9" :> 9)

IsDigit(ch) == ch \in DOMAIN DigitValue

\* The longest prefix of s made of digits.
RECURSIVE DigitPrefix(_)
DigitPrefix(s) ==
    IF s # <<>> /\ IsDigit(Head(s)) THEN <<Head(s)>> \o DigitPrefix(Tail(s)) ELSE <<>>

RECURSIVE DigitsValue(_)
DigitsValue(d) ==
    IF d = <<>> THEN 0 ELSE 10 * DigitsValue(SubSeq(d, 1, Len(d) - 1)) + DigitValue[d[Len(d)]]

\* A JavaScript number is NaN or an amount, kept in hundredths (pence).
NaN == [nan |-> TRUE, pence |-> 0]
Num(n) == [nan |-> FALSE, pence |-> n]

\* parseFloat(s): the number the longest numeric prefix of s denotes, NaN when
\* s does not start with a digit.  Digits after the second decimal are dropped.
ParseFloat(s) ==
    LET int == DigitPrefix(s)
        rest == SubSeq(s, Len(int) + 1, Len(s))
        frac == IF rest # <<>> /\ Head(rest) = "." THEN DigitPrefix(Tail(rest)) ELSE <<>>
        frac2 == SubSeq(frac \o <<"0", "0">>, 1, 2)
    IN  IF int = <<>> THEN NaN
        ELSE Num(100 * DigitsValue(int) + DigitsValue(frac2))

\* sum + (price * item.cartQuantity)
AddLine(sum, price, cartQuantity) ==
    IF sum.nan \/ price.nan THEN NaN ELSE Num(sum.pence + price.pence * cartQuantity)

\* A total whose reducer drops the sum so far.
total_LastLineOnly(c) ==
    IF c = <<>> THEN Num(0)
    ELSE AddLine(Num(0), ParseFloat(Replace(c[Len(c)].price, "£")), c[Len(c)].cartQuantity)

\* total(): this.cart.reduce((sum, item) => sum + parseFloat(item.price.replace('£', '')) * item.cartQuantity, 0)
RECURSIVE total(_)
total(c) ==
    IF c = <<>> THEN Num(0)
    ELSE LET item == c[Len(c)]
         IN  AddLine(total(SubSeq(c, 1, Len(c) - 1)),
                     ParseFloat(Replace(item.price, "£")),
                     item.cartQuantity)

\* A page shows {{ total }}: the computed total is evaluated over its cart.
renderTotal ==
    /\ last' = Did("total", [total |-> total(cart)], TRUE, NoAlert)
    /\ UNCHANGED vars_page

\* ---------------------------------------------------------------- the catalog page's list

Upper ==
    <<"A", "B", "C", "D", "E", "F", "G", "H", "I", "J", "K", "L", "M",
      "N", "O", "P", "Q", "R", "S", "T", "U", "V", "W", "X", "Y", "Z">>

Lower ==
    <<"a", "b", "c", "d", "e", "f", "g", "h", "i", "j", "k", "l", "m",
      "n", "o", "p", "q", "r", "s", "t", "u", "v", "w", "x", "y", "z">>

ToLowerChar(ch) ==
    IF \E i \in DOMAIN Upper : Upper[i] = ch
    THEN Lower[CHOOSE i \in DOMAIN Upper : Upper[i] = ch]
    ELSE ch

\* String.prototype.toLowerCase()
ToLowerCase(s) == [i \in 1..Len(s) |-> ToLowerChar(s[i])]

\* String.prototype.includes(q)
Includes(s, q) == \E i \in 0..(Len(s) - Len(q)) : SubSeq(s, i + 1, i + Len(q)) = q

\* The filter's test with its Location half left out.
Matches_NameOnly(product, query) == Includes(ToLowerCase(product.name), query)

\* product.name.toLowerCase().includes(query) || product.Location.toLowerCase().includes(query)
Matches(product, query) ==
    \/ Includes(ToLowerCase(product.name), query)
    \/ Includes(ToLowerCase(product.Location), query)

\* this.products.filter(...): a new array of the products that pass, in their order.
Filter(ps, query) == SelectSeq(ps, LAMBDA product : Matches(product, query))

\* The order in which the collation of localeCompare puts the characters of
\* the lesson names at its first level: blank, punctuation, digits, letters.
CollationOrder ==
    <<" ", "-", ".", "/", "&", "0", "1", "2", "3", "4", "5", "6", "7", "8", "9">> \o Lower

Rank(ch) == CHOOSE i \in DOMAIN CollationOrder : CollationOrder[i] = ToLowerChar(ch)

\* a.localeCompare(b): negative, zero or positive.  The first difference in
\* rank decides; with none, the shorter string is first; between strings
\* that differ in case alone, the first lower-case letter against an
\* upper-case one is first.
RECURSIVE LocaleCompare(_, _)
LocaleCompare(a, b) ==
    LET n == Min(Len(a), Len(b))
        diff == {i \in 1..n : Rank(a[i]) # Rank(b[i])}
        case == {i \in 1..n : a[i] # b[i]}
        First(S) == CHOOSE i \in S : \A j \in S : i <= j
    IN  IF diff # {} THEN (IF Rank(a[First(diff)]) < Rank(b[First(diff)]) THEN -1 ELSE 1)
        ELSE IF Len(a) # Len(b) THEN (IF Len(a) < Len(b) THEN -1 ELSE 1)
        ELSE IF case # {} THEN (IF a[First(case)] = ToLowerChar(a[First(case)]) THEN -1 ELSE 1)
        ELSE 0

\* parseInt(s): the whole number its leading digits spell, after leading
\* blanks; NaN when it has none.
ParseInt(s) ==
    LET d == DigitPrefix(TrimStart(s))
    IN  IF d = <<>> THEN NaN ELSE Num(100 * DigitsValue(d))

\* priceA - priceB
Minus(a, b) == IF a.nan \/ b.nan THEN NaN ELSE Num(a.pence - b.pence)

SortKeys == {"", "name", "price"}

\* The comparator filteredProducts passes to sort.
Comparator(a, b, key) ==
    IF key = "name" THEN Num(LocaleCompare(a.name, b.name))
    ELSE IF key = "price"
    THEN Minus(ParseInt(Replace(a.price, "$")), ParseInt(Replace(b.price, "$")))
    ELSE Num(0)

\* What Array.prototype.sort makes of the comparator's value: a NaN counts as 0.
SortCompare(a, b, key) ==
    LET v == Comparator(a, b, key) IN IF v.nan THEN 0 ELSE v.pence

\* Array.prototype.sort(comparator): stable, an element goes behind the
\* elements that do not compare greater than it.
RECURSIVE Sort(_, _)
Sort(elems, key) ==
    IF elems = <<>> THEN <<>>
    ELSE LET front == Sort(SubSeq(elems, 1, Len(elems) - 1), key)
             x == elems[Len(elems)]
             greater == {i \in 1..Len(front) : SortCompare(front[i], x, key) > 0}
             at == IF greater = {} THEN Len(front) + 1
                   ELSE CHOOSE i \in greater : \A j \in greater : i <= j
         IN  SubSeq(front, 1, at - 1) \o <<x>> \o SubSeq(front, at, Len(front))

\* An array is told by its identity: "products" is this.products, the others
\* are arrays the computation made.

\* A sort of the array itself, with no copy made.
Spread_Alias(arr) == arr

\* [...filtered]: a new array of the same elements.
Spread(arr) == [id |-> "copy", elems |-> arr.elems]

\* let filtered = this.products; if (this.searchQuery) filtered = this.products.filter(...)
FilterStep(ps, query) ==
    IF query # <<>>
    THEN [id |-> "filtered", elems |-> Filter(ps, ToLowerCase(query))]
    ELSE [id |-> "products", elems |-> ps]

\* if (this.sortBy) filtered = [...filtered].sort(...): sort orders the array
\* it is called on in place and returns it.
SortStep(arr, key) ==
    IF key # "" THEN [Spread(arr) EXCEPT !.elems = Sort(@, key)] ELSE arr

\* filteredProducts(): the array it returns.
filteredProducts(ps, query, key) == SortStep(FilterStep(ps, query), key)

\* The user types into the search box.
Catalog_search(query) ==
    /\ page = "catalog"
    /\ query # searchQuery
    /\ searchQuery' = query
    /\ last' = Did("search", NoArg, TRUE, NoAlert)
    /\ UNCHANGED <<page, accepted, products, sortBy, cart, removed, store, checkoutForm,
                   validationErrors, checkoutSuccess, isSubmitting, timer>>

\* The user picks a sort key.
Catalog_sort(key) ==
    /\ page = "catalog"
    /\ key # sortBy
    /\ sortBy' = key
    /\ last' = Did("sort", NoArg, TRUE, NoAlert)
    /\ UNCHANGED <<page, accepted, products, searchQuery, cart, removed, store, checkoutForm,
                   validationErrors, checkoutSuccess, isSubmitting, timer>>

\* The page lists filteredProducts: the computed list is evaluated.  When
\* the array it sorted is this.products itself, this.products is left in the
\* sorted order.
renderProducts ==
    /\ page = "catalog"
    /\ LET filtered == filteredProducts(products, searchQuery, sortBy)
       IN  /\ products' = IF filtered.id = "products" THEN filtered.elems ELSE products
           /\ last' = Did("filteredProducts", [result |-> filtered.elems], TRUE, NoAlert)
    /\ UNCHANGED <<page, searchQuery, sortBy, accepted, cart, removed, store, checkoutForm,
                   validationErrors, checkoutSuccess, isSubmitting, timer>>

\* ---------------------------------------------------------------- checkout on the cart page

Str_Al == <<"A", "l">>
Str_Bo == <<"B", "o">>
Str_BlankA == <<" ", "A">>
Str_Email == <<"a", "@", "b", ".", "c">>
Str_BadEmail == <<"a", "@", "b">>
Str_Address == <<"1", " ", "H", "i", "g", "h", " ", "S", "t", ",", " ", "L", "e", "e", "d", "s">>
Str_ShortAddress == <<"1", " ", "H", "i", "g", "h", " ", "S", "t", " ">>
Str_Blank == <<" ">>

\* What the user may have typed into the cart page's form (v-model).
CartFormInputs ==
    { CartForm,
      [name |-> Str_Al, email |-> Str_Email, address |-> Str_Address],
      [name |-> Str_Bo, email |-> Str_Email, address |-> Str_Address],
      [name |-> Str_Al, email |-> <<>>, address |-> Str_Address],
      [name |-> Str_BlankA, email |-> Str_BadEmail, address |-> Str_ShortAddress],
      [name |-> Str_Blank, email |-> Str_Blank, address |-> Str_Blank] }

\* The user edits the cart page's form.
Cart_editForm(f) ==
    /\ page = "cart"
    /\ f # checkoutForm
    /\ checkoutForm' = f
    /\ last' = Did("editForm", NoArg, TRUE, NoAlert)
    /\ UNCHANGED <<page, searchQuery, sortBy, accepted, products, cart, removed, store,
                   validationErrors, checkoutSuccess, isSubmitting, timer>>

NameError(f) ==
    IF Trim(f.name) = <<>> THEN ("name" :> "Name is required")
    ELSE IF Len(Trim(f.name)) < 2 THEN ("name" :> "Name must be at least 2 characters")
    ELSE NoErrors

EmailError(f) ==
    IF Trim(f.email) = <<>> THEN ("email" :> "Email is required")
    ELSE IF ~EmailRegexTest(f.email) THEN ("email" :> "Please enter a valid email address")
    ELSE NoErrors

AddressError(f) ==
    IF Trim(f.address) = <<>> THEN ("address" :> "Address is required")
    ELSE IF Len(Trim(f.address)) < 10 THEN ("address" :> "Address must be at least 10 characters")
    ELSE NoErrors

\* validateCheckoutForm(): the validationErrors it leaves; it returns true
\* exactly when it leaves none.
validateCheckoutForm(f) == NameError(f) @@ EmailError(f) @@ AddressError(f)

\* The form and the cart at the moment a submitCheckout is accepted.
Snapshot(form, c) == [form |-> form, cart |-> c]

\* submitCheckout without its first line.
submitCheckout_Unguarded ==
    /\ page = "cart"
    /\ validationErrors' = validateCheckoutForm(checkoutForm)
    /\ IF validationErrors' # NoErrors
       THEN /\ UNCHANGED <<isSubmitting, checkoutSuccess, timer, accepted>>
            /\ last' = Did("submitCheckout", NoArg, FALSE, NoAlert)
       ELSE /\ isSubmitting' = TRUE
            /\ checkoutSuccess' = FALSE
            /\ timer' = timer + 1
            /\ accepted' = Snapshot(checkoutForm, cart)
            /\ last' = Did("submitCheckout", NoArg, TRUE, NoAlert)
    /\ UNCHANGED <<page, searchQuery, sortBy, products, cart, removed, store, checkoutForm>>

\* if (this.isSubmitting) return; if (!this.validateCheckoutForm()) return;
submitCheckout ==
    /\ page = "cart"
    /\ IF isSubmitting
       THEN /\ UNCHANGED <<validationErrors, isSubmitting, checkoutSuccess, timer, accepted>>
            /\ last' = Did("submitCheckout", NoArg, FALSE, NoAlert)
       ELSE /\ validationErrors' = validateCheckoutForm(checkoutForm)
            /\ IF validationErrors' # NoErrors
               THEN /\ UNCHANGED <<isSubmitting, checkoutSuccess, timer, accepted>>
                    /\ last' = Did("submitCheckout", NoArg, FALSE, NoAlert)
               ELSE /\ isSubmitting' = TRUE
                    /\ checkoutSuccess' = FALSE
                    /\ timer' = timer + 1
                    /\ accepted' = Snapshot(checkoutForm, cart)
                    /\ last' = Did("submitCheckout", NoArg, TRUE, NoAlert)
    /\ UNCHANGED <<page, searchQuery, sortBy, products, cart, removed, store, checkoutForm>>

\* JSON.stringify of a number: NaN is written as null.
JSONnumber(n) == IF n.nan THEN Null ELSE n

\* processCheckout(): the order it writes under 'lastOrder'.  Its id and date
\* are the clock's and are left out.
Order(form, c) ==
    [kind |-> "json",
     json |-> [customer |-> form,
               items |-> JSONstringify(c).json,
               total |-> JSONnumber(total(c))]]

Alert_Success == "Checkout successful! Thank you for your purchase, Customer!"

\* A callback that leaves the in-flight flag set.
checkoutTimer_KeepsFlag ==
    /\ page = "cart"
    /\ timer > 0
    /\ timer' = timer - 1
    /\ accepted' = Null
    /\ cart' = <<>>
    /\ store' = saveCart(store, cart')
    /\ checkoutSuccess' = TRUE
    /\ isSubmitting' = isSubmitting
    /\ checkoutForm' = CartForm
    /\ validationErrors' = NoErrors
    /\ last' = [Did("processCheckout", NoArg, TRUE, Alert_Success)
                  EXCEPT !.order = Order(checkoutForm, cart)]
    /\ UNCHANGED <<page, searchQuery, sortBy, products, removed>>

\* The setTimeout callback of submitCheckout, 2000 ms after it was accepted:
\* processCheckout(), then the success flags, the cleared form and the alert.
checkoutTimer ==
    /\ page = "cart"
    /\ timer > 0
    /\ timer' = timer - 1
    /\ accepted' = Null
    /\ cart' = <<>>
    /\ store' = saveCart(store, cart')
    /\ checkoutSuccess' = TRUE
    /\ isSubmitting' = FALSE
    /\ checkoutForm' = CartForm
    /\ validationErrors' = NoErrors
    /\ last' = [Did("processCheckout", NoArg, TRUE, Alert_Success)
                  EXCEPT !.order = Order(checkoutForm, cart)]
    /\ UNCHANGED <<page, searchQuery, sortBy, products, removed>>

\* ---------------------------------------------------------------- checkout page

Str_Phone == <<"0", "7">>
Str_Card == <<"c", "a", "r", "d">>

FullCheckoutForm ==
    [name |-> Str_Al, email |-> Str_Email, phone |-> Str_Phone,
     address |-> Str_Address, payment |-> Str_Card]

\* What the user may have typed into the checkout page's form (v-model).
CheckoutFormInputs ==
    { CheckoutForm,
      FullCheckoutForm,
      [FullCheckoutForm EXCEPT !.email = <<>>],
      [FullCheckoutForm EXCEPT !.payment = <<>>] }

\* The user edits the checkout page's form.
Checkout_editForm(f) ==
    /\ page = "checkout"
    /\ f # checkoutForm
    /\ checkoutForm' = f
    /\ last' = Did("editForm", NoArg, TRUE, NoAlert)
    /\ UNCHANGED <<page, searchQuery, sortBy, accepted, products, cart, removed, store,
                   validationErrors, checkoutSuccess, isSubmitting, timer>>

\* !this.checkoutForm.name || !this.checkoutForm.email || ...: an empty
\* string is the one falsy string.
MissingField(f) ==
    \/ f.name = <<>>
    \/ f.email = <<>>
    \/ f.phone = <<>>
    \/ f.address = <<>>
    \/ f.payment = <<>>

Alert_Required == "Please fill in all required fields"
Alert_Empty == "Your cart is empty. Please add some items first."
Alert_Completed == "Order completed successfully!"

\* completeOrder() of the checkout page.
completeOrder ==
    /\ page = "checkout"
    /\ IF MissingField(checkoutForm)
       THEN /\ last' = Did("completeOrder", NoArg, FALSE, Alert_Required)
            /\ UNCHANGED vars_page
       ELSE IF Len(cart) = 0
       THEN /\ last' = Did("completeOrder", NoArg, FALSE, Alert_Empty)
            /\ UNCHANGED store
            /\ Enter("catalog", store)
       ELSE /\ last' = Did("completeOrder", NoArg, TRUE, Alert_Completed)
            /\ store' = [store EXCEPT !.classCart = Null]
            /\ Enter("catalog", store')

\* goBackToCart(): window.location.href = 'index.html'
goBackToCart ==
    /\ page = "checkout"
    /\ UNCHANGED store
    /\ Enter("catalog", store)
    /\ last' = Did("goBackToCart", NoArg, TRUE, NoAlert)

\* The entry objects a click on the page can pass to removeFromCart, by
\* identity: those in the cart and the one removeFromCart took out last.
Items == {cart[i].ref : i \in 1..Len(cart)} \cup removed

\* The handlers of the three pages.  The computed total and list change
\* nothing the handlers read; they are evaluated in SpecStored and
\* SpecCatalog below.
Next ==
    \/ \E pg \in Pages : OpenPage(pg)
    \/ \E p \in 1..NumProducts, q \in QuantityInputs : Catalog_addToCart(p, q)
    \/ \E item \in Items : Catalog_removeFromCart(item)
    \/ goToCart
    \/ \E item \in Items : Cart_removeFromCart(item)
    \/ goToProducts
    \/ \E f \in CartFormInputs : Cart_editForm(f)
    \/ submitCheckout
    \/ checkoutTimer
    \/ \E f \in CheckoutFormInputs : Checkout_editForm(f)
    \/ completeOrder
    \/ goBackToCart

Spec == Init /\ [][Next]_vars

\* ---------------------------------------------------------------- a store left by an earlier session

\* localStorage outlives the pages: the cart and checkout pages are opened
\* over whatever is under 'classCart', and compute their total over it.

Str_Free == <<"F", "r", "e", "e">>
Str_NineX == <<"£", "9", "x">>

\* An entry as addToCart pushes it, { ...product, cartQuantity }, in its JSON form.
StoredEntry(i, q, price) ==
    ("cartQuantity" :> q)
       @@ [SeedProducts[i] EXCEPT !.quantity = q, !.inCart = TRUE, !.price = price]

\* Entries of lessons 1 ("£88.99") and 4 ("£250"), and two whose price is no number.
StoredEntries ==
    {StoredEntry(i, q, SeedProducts[i].price) : i \in {1, 4}, q \in 1..MaxSpaces}
       \cup {StoredEntry(1, 1, Str_Free), StoredEntry(4, 1, Str_NineX)}

StoredCarts == UNION {[1..n -> StoredEntries] : n \in 0..MaxCartLen}

StoredTexts == {Null, Corrupt} \cup {[kind |-> "json", json |-> c] : c \in StoredCarts}

InitStored ==
    /\ store \in [classCart : StoredTexts]
    /\ page = "catalog"
    /\ products = InitialProducts
    /\ searchQuery = <<>>
    /\ sortBy = ""
    /\ cart = <<>>
    /\ removed = {}
    /\ checkoutForm = NoForm
    /\ validationErrors = NoErrors
    /\ checkoutSuccess = FALSE
    /\ isSubmitting = FALSE
    /\ timer = 0
    /\ accepted = Null
    /\ last = Did("open", [page |-> "catalog"], TRUE, NoAlert)

ValidCartForm == [name |-> Str_Al, email |-> Str_Email, address |-> Str_Address]

NextStored ==
    \/ \E pg \in {"cart", "checkout"} : OpenPage(pg)
    \/ renderTotal
    \/ Cart_editForm(ValidCartForm)
    \/ submitCheckout
    \/ checkoutTimer

SpecStored == InitStored /\ [][NextStored]_vars

\* ---------------------------------------------------------------- the checkout delay

\* The cart page over an empty store or a cart of one entry, with the ways
\* into and out of the page, and the browser's timers.

LiveTexts ==
    {Null, [kind |-> "json", json |-> <<StoredEntry(1, 1, SeedProducts[1].price)>>]}

InitLive ==
    /\ store \in [classCart : LiveTexts]
    /\ page = "catalog"
    /\ products = InitialProducts
    /\ searchQuery = <<>>
    /\ sortBy = ""
    /\ cart = <<>>
    /\ removed = {}
    /\ checkoutForm = NoForm
    /\ validationErrors = NoErrors
    /\ checkoutSuccess = FALSE
    /\ isSubmitting = FALSE
    /\ timer = 0
    /\ accepted = Null
    /\ last = Did("open", [page |-> "catalog"], TRUE, NoAlert)

NextLive ==
    \/ \E pg \in Pages : OpenPage(pg)
    \/ goToCart
    \/ goToProducts
    \/ \E item \in Items : Cart_removeFromCart(item)
    \/ \E f \in CartFormInputs : Cart_editForm(f)
    \/ submitCheckout
    \/ checkoutTimer

\* The browser runs a setTimeout callback that is due: while the cart page
\* stays open with a callback pending, the callback is run.  Leaving the
\* page drops its pending callbacks.
SpecLive == InitLive /\ [][NextLive]_vars /\ WF_vars(checkoutTimer)

\* ---------------------------------------------------------------- the catalog page's search and sort

\* The search box and the sort select change the list the page shows and
\* nothing of the cart or the store.  The page holds the ten lessons.

QueryChars == {"L", "i", "l", "y"}

Queries == UNION {[1..n -> QueryChars] : n \in 0..MaxQueryLen}

InitCatalog ==
    /\ store = [classCart |-> Null]
    /\ page = "catalog"
    /\ products = SeedProducts
    /\ searchQuery = <<>>
    /\ sortBy = ""
    /\ cart = <<>>
    /\ removed = {}
    /\ checkoutForm = NoForm
    /\ validationErrors = NoErrors
    /\ checkoutSuccess = FALSE
    /\ isSubmitting = FALSE
    /\ timer = 0
    /\ accepted = Null
    /\ last = Did("open", [page |-> "catalog"], TRUE, NoAlert)

NextCatalog ==
    \/ \E query \in Queries : Catalog_search(query)
    \/ \E key \in SortKeys : Catalog_sort(key)
    \/ renderProducts

SpecCatalog == InitCatalog /\ [][NextCatalog]_vars

\* ---------------------------------------------------------------- properties

RECURSIVE SumQuantity(_, _)
\* The sum of cartQuantity over the entries of c with the given id.
SumQuantity(c, id) ==
    IF c = <<>> THEN 0
    ELSE (IF Head(c).id = id THEN Head(c).cartQuantity ELSE 0) + SumQuantity(Tail(c), id)

\* The number of entries of c with the given id.
CountId(c, id) == Cardinality({i \in 1..Len(c) : c[i].id = id})

\* The cart the text under 'classCart' holds: none when the key is not set.
PersistedCart == IF store.classCart = Null THEN <<>> ELSE store.classCart.json

\* C1 (conservation): on the catalog page, for every catalog item, the
\* cartQuantity of the cart entries with the item's id and the item's
\* remaining spaces add up to the item's seed capacity.
C1_Conservation ==
    page = "catalog" =>
        \A i \in 1..Len(products) :
            SumQuantity(cart, products[i].id) + products[i].spaces
                = InitialProducts[i].spaces

\* A lesson was added, removed, added again and added once more: its entry
\* holds two spaces and the lesson has none left.
C1_Witness ==
    /\ page = "catalog"
    /\ last.op = "addToCart" /\ last.ok
    /\ removed # {}
    /\ \E i \in 1..Len(cart) :
          cart[i].cartQuantity = 2 /\ products[last.arg.p].spaces = MaxSpaces - 2

\* C2 (merge law): the cart never holds two entries of one id, and an
\* addToCart of q spaces of a lesson, q valid against the lesson's remaining
\* spaces, leaves exactly one entry of the lesson's id, holding q more than
\* the cart held of it before (q1 + q2 after two adds).
C2_MergeLaw ==
    [][ /\ \A i, j \in 1..Len(cart') : cart'[i].id = cart'[j].id => i = j
        /\ (last'.op = "addToCart"
              /\ last'.arg.q >= 1
              /\ last'.arg.q <= products[last'.arg.p].spaces)
           => LET id == products[last'.arg.p].id
              IN  /\ CountId(cart', id) = 1
                  /\ SumQuantity(cart', id) = SumQuantity(cart, id) + last'.arg.q
      ]_vars

\* An entry made by an add of one space now holds two: a second add merged.
C2_Witness ==
    /\ last.op = "addToCart" /\ last.ok /\ last.arg.q = 1
    /\ \E i \in 1..Len(cart) :
          /\ cart[i].id = products[last.arg.p].id
          /\ cart[i].quantity = 1
          /\ cart[i].cartQuantity = 2

\* C3: no catalog item ever has fewer than 0 spaces left.
C3_SpacesNonNegative ==
    \A i \in 1..Len(products) : products[i].spaces >= 0

\* A lesson is sold out and an add of one more space has just been refused.
C3_Witness ==
    /\ last.op = "addToCart" /\ ~last.ok
    /\ last.arg.q = 1
    /\ products[last.arg.p].spaces = 0

\* C4: an addToCart whose requested quantity is below 1 or above the lesson's
\* remaining spaces changes nothing: not the cart, not any item's spaces or
\* in-cart flag, not the requested quantity, not the text under 'classCart'.
C4_InvalidAddIsNoOp ==
    [][ (last'.op = "addToCart"
           /\ (last'.arg.q < 1 \/ last'.arg.q > products[last'.arg.p].spaces))
        => /\ cart' = cart
           /\ store' = store
           /\ products' = [products EXCEPT ![last'.arg.p].quantity = last'.arg.q]
      ]_vars

\* An add of a negative quantity was refused while the cart held an entry.
C4_Witness ==
    /\ last.op = "addToCart" /\ ~last.ok
    /\ last.arg.q < 1
    /\ cart # <<>>
    /\ products[last.arg.p].quantity = last.arg.q

\* C5: a removeFromCart of an entry the cart holds gives the entry's
\* cartQuantity back to the catalog item of its id, clears that item's
\* in-cart flag, takes the entry out of the cart and persists the cart, on
\* the catalog page and on the cart page.
C5_RemoveRestoresCapacity ==
    [][ (last'.op = "removeFromCart"
           /\ \E k \in 1..Len(cart) : cart[k].ref = last'.arg.item)
        => /\ \A k \in 1..Len(cart) :
                 cart[k].ref = last'.arg.item =>
                    \E i \in 1..Len(products) :
                       /\ products[i].id = cart[k].id
                       /\ i \in 1..Len(products')
                       /\ products'[i].spaces = products[i].spaces + cart[k].cartQuantity
                       /\ ~products'[i].inCart
           /\ \A k \in 1..Len(cart') : cart'[k].ref # last'.arg.item
           /\ Len(cart') = Len(cart) - 1
           /\ store'.classCart = JSONstringify(cart')
      ]_vars

\* C6: a removeFromCart of an entry that an earlier removeFromCart already
\* took out changes nothing: not the cart, not the catalog, not the text
\* under 'classCart'.
C6_RemoveIdempotent ==
    [][ (last'.op = "removeFromCart" /\ last'.arg.item \in removed)
        => /\ cart' = cart
           /\ products' = products
           /\ store' = store
      ]_vars

\* A removed entry was removed a second time while the cart held another.
C6_Witness ==
    /\ last.op = "removeFromCart" /\ ~last.ok
    /\ last.arg.item \in removed
    /\ cart # <<>>

\* C7: when addToCart, removeFromCart or the checkout's clearing has changed
\* the cart, the text under 'classCart' is the serialisation of the cart as
\* the change left it.
C7_PersistedAfterMutation ==
    [][ (last'.op \in {"addToCart", "removeFromCart", "processCheckout"}
           /\ cart' # cart)
        => store'.classCart = JSONstringify(cart')
      ]_vars

\* The checkout has just cleared a cart that held an entry, and the text
\* under 'classCart' is that of the empty cart.
C7_Witness ==
    /\ last.op = "processCheckout"
    /\ last.order.json.items # <<>>
    /\ cart = <<>>
    /\ store.classCart = JSONstringify(<<>>)

PageEntries == {"open", "goToCart", "goToProducts", "goBackToCart"}

\* C8: right after a page is entered, whichever of the three, the cart in
\* memory is the cart persisted under 'classCart'.
C8_LoadedOnEntry ==
    last.op \in PageEntries => JSONstringify(cart).json = PersistedCart

\* C9: a checkout submitted while the cart is empty, by submitCheckout or by
\* completeOrder, is refused and the refusal is reported.
C9_EmptyCartRejected ==
    [][ (last'.op \in {"submitCheckout", "completeOrder"} /\ cart = <<>>)
        => /\ ~last'.ok
           /\ (last'.alert # NoAlert \/ validationErrors' # NoErrors)
      ]_vars

\* The form fields a validation failure is recorded for.  The checkout page
\* records none: its one report is an alert that names no field.
ReportedFields == DOMAIN validationErrors

\* A form whose email alone is empty, every other field being valid.
OnlyEmailEmpty(f) ==
    /\ f.email = <<>>
    /\ \A k \in (DOMAIN f) \ {"email"} : Len(Trim(f[k])) >= 2
    /\ Len(Trim(f.address)) >= 10

\* C10: a checkout submitted, with no submission in flight, from a form whose
\* email alone is empty records exactly one validation failure, for "email",
\* and is aborted: nothing in flight, the cart and the text under 'classCart'
\* as they were.
C10_OnlyEmailReported ==
    [][ (last'.op \in {"submitCheckout", "completeOrder"}
           /\ ~isSubmitting
           /\ OnlyEmailEmpty(checkoutForm))
        => /\ ReportedFields' = {"email"}
           /\ ~last'.ok
           /\ ~isSubmitting' /\ timer' = 0
           /\ cart' = cart
           /\ store' = store
      ]_vars

\* A step that completed a checkout: the timer callback of the cart page ran
\* processCheckout, or completeOrder of the checkout page went through.
Completed(l) == l.op = "processCheckout" \/ (l.op = "completeOrder" /\ l.ok)

\* C11: every completed checkout, through the cart page or through the
\* checkout page, writes under 'lastOrder' one order that holds the form as
\* it was, the cart entries as they were before the clearing and the total
\* over those entries.
C11_OrderPersisted ==
    [][ Completed(last') => last'.order = Order(checkoutForm, cart) ]_vars

\* C12: a completed checkout, through either page, leaves no 'classCart' key
\* in the store, and a page entered next loads an empty cart.
C12_CartKeyRemoved ==
    [][ Completed(last')
        => /\ store'.classCart = Null
           /\ loadCart(store', <<>>) = <<>>
      ]_vars

\* C13: a checkout of q units of an item leaves the item at most its
\* original capacity less q: not on the catalog page completeOrder goes to,
\* and not in the state that follows processCheckout, whichever page that is.
C13_NoRestock ==
    [][ \A i \in 1..Len(products') :
           /\ (last'.op = "completeOrder" /\ last'.ok)
                 => products'[i].spaces
                       <= InitialProducts[i].spaces - SumQuantity(cart, products'[i].id)
           /\ last.op = "processCheckout"
                 => products'[i].spaces
                       <= InitialProducts[i].spaces
                             - SumQuantity(last.order.json.items, products'[i].id)
      ]_vars

\* C14: a submitCheckout made while an accepted one is in its delay changes
\* nothing; no more than one callback is ever pending, it is pending exactly
\* while the flag is set, and the one run of processCheckout it leads to
\* clears the flag and leaves none pending.
C14_InFlightGuard ==
    [][ /\ (last'.op = "submitCheckout" /\ isSubmitting)
              => (~last'.ok /\ UNCHANGED vars_page)
        /\ timer' <= 1
        /\ (page' = "cart" => (isSubmitting' <=> timer' = 1))
        /\ last'.op = "processCheckout"
              => (isSubmitting /\ timer = 1 /\ ~isSubmitting' /\ timer' = 0)
      ]_vars

\* A submitCheckout was refused while the callback of an accepted one, with a
\* cart that holds an entry, was pending.
C14_Witness ==
    /\ last.op = "submitCheckout" /\ ~last.ok
    /\ isSubmitting
    /\ timer = 1
    /\ cart # <<>>

\* The sum of two numbers; NaN when either is.
Plus(a, b) == IF a.nan \/ b.nan THEN NaN ELSE Num(a.pence + b.pence)

\* The seed prices in pence, by lesson id.
SeedPence == <<8899, 14999, 9999, 25000, 22000, 25000, 20000, 19900, 20900, 15000>>

\* Every entry of c carries the seed price of its lesson.
SeedPriced(c) == \A i \in 1..Len(c) : c[i].price = SeedProducts[c[i].id].price

\* C15: over a cart whose entries carry seed prices, the total a page
\* computes is 0 for the empty cart, is the total of any front part plus the
\* total of the rest, and for a single entry is its price in pence times its
\* cartQuantity.
C15_TotalLaw ==
    (last.op = "total" /\ SeedPriced(cart))
    => /\ (cart = <<>> => last.arg.total = Num(0))
       /\ \A k \in 0..Len(cart) :
             last.arg.total = Plus(total(SubSeq(cart, 1, k)),
                                   total(SubSeq(cart, k + 1, Len(cart))))
       /\ \A i \in 1..Len(cart) :
             total(<<cart[i]>>) = Num(SeedPence[cart[i].id] * cart[i].cartQuantity)

\* A page computed the total of a cart of two or more entries of different
\* lessons, all at seed prices, and it is not 0.
C15_Witness ==
    /\ last.op = "total"
    /\ Len(cart) >= 2
    /\ SeedPriced(cart)
    /\ cart[1].id # cart[2].id
    /\ ~last.arg.total.nan
    /\ last.arg.total.pence > 0

\* The prices of a list of lessons never fall from one to the next.
AscendingPrice(ps) ==
    \A i, j \in 1..Len(ps) : i < j => SeedPence[ps[i].id] <= SeedPence[ps[j].id]

\* C16: with the sort key 'price', the list the catalog page computes over
\* its lessons, whose prices are the seed's "£" strings, is in ascending
\* order of price.
C16_SortedByPrice ==
    (last.op = "filteredProducts" /\ sortBy = "price")
    => AscendingPrice(last.arg.result)

\* s holds q somewhere, letter case set aside.
ContainsCI(s, q) ==
    \E off \in 0..(Len(s) - Len(q)) :
        \A j \in 1..Len(q) : ToLowerChar(s[off + j]) = ToLowerChar(q[j])

\* The places in ps of the lessons whose name or location holds q.
Wanted(ps, q) ==
    {i \in 1..Len(ps) : ContainsCI(ps[i].name, q) \/ ContainsCI(ps[i].Location, q)}

\* The lessons of ps at the places S, in the order of ps.
InOrder(ps, S) ==
    [k \in 1..Cardinality(S) |->
        ps[CHOOSE i \in S : Cardinality({j \in S : j < i}) = k - 1]]

\* C17: the list the catalog page computes holds exactly the lessons whose
\* name or location contains the search text, letter case set aside; with
\* no sort key they are in catalog order; with an empty search text every
\* lesson is in it.
C17_FilterExact ==
    last.op = "filteredProducts"
    => LET result == last.arg.result
           wanted == Wanted(products, searchQuery)
       IN  /\ Len(result) = Cardinality(wanted)
           /\ {result[k].id : k \in 1..Len(result)} = {products[i].id : i \in wanted}
           /\ (sortBy = "" => result = InOrder(products, wanted))
           /\ (searchQuery = <<>> => Len(result) = Len(products))

\* With no sort key, a search text with a capital in it found some but not
\* all lessons: one by its location alone, one by its name.
C17_Witness ==
    /\ last.op = "filteredProducts"
    /\ sortBy = ""
    /\ searchQuery # ToLowerCase(searchQuery)
    /\ Len(last.arg.result) < Len(products)
    /\ \E k \in 1..Len(last.arg.result) :
          ~ContainsCI(last.arg.result[k].name, searchQuery)
    /\ \E k \in 1..Len(last.arg.result) :
          ContainsCI(last.arg.result[k].name, searchQuery)

\* The place in ps of the lesson with the given id.
Place(ps, id) == CHOOSE i \in 1..Len(ps) : ps[i].id = id

\* C18: computing the list leaves data.products as it was, items, order and
\* field values, whatever the search text and the sort key; with no sort key
\* the lessons of the list follow each other as they do in the catalog.
C18_CatalogNotMutated ==
    [][ last'.op = "filteredProducts"
        => /\ products' = products
           /\ (sortBy = ""
                 => \A i, j \in 1..Len(last'.arg.result) :
                       i < j => Place(products, last'.arg.result[i].id)
                                   < Place(products, last'.arg.result[j].id))
      ]_vars

\* The list was computed sorted by name with no search text: it holds every
\* lesson in another order than the catalog, which is still in seed order.
C18_Witness ==
    /\ last.op = "filteredProducts"
    /\ sortBy = "name"
    /\ searchQuery = <<>>
    /\ Len(last.arg.result) = Len(products)
    /\ last.arg.result # products
    /\ products = SeedProducts

\* C19: a cart or checkout page opened over a text under 'classCart' that
\* cannot be deserialised has an empty cart, and no exception leaves its
\* mounted hook.
C19_CorruptLoadsEmpty ==
    (last.op = "open" /\ page \in {"cart", "checkout"} /\ store.classCart = Corrupt)
    => /\ cart = <<>>
       /\ last.uncaught = NoError

\* s is a decimal number: digits, or digits, a point and digits.
IsDecimal(s) ==
    \E k \in 1..Len(s) :
        /\ \A j \in 1..k : IsDigit(s[j])
        /\ \/ k = Len(s)
           \/ /\ k + 1 < Len(s)
              /\ s[k + 1] = "."
              /\ \A j \in (k + 2)..Len(s) : IsDigit(s[j])

\* Some entry of c has a price that, the "£" stripped, is no decimal number.
Unparseable(c) == \E i \in 1..Len(c) : ~IsDecimal(Replace(c[i].price, "£"))

\* C20: a total computed over a cart with an entry whose price cannot be
\* parsed is reported as an error, by an exception or an alert, and yields
\* no number and no NaN; a checkout processed over such a cart writes no
\* order.
C20_ParseErrorReported ==
    [][ /\ (last'.op = "total" /\ Unparseable(cart))
              => /\ (last'.uncaught # NoError \/ last'.alert # NoAlert)
                 /\ last'.arg.total = Null
        /\ (last'.op = "processCheckout" /\ Unparseable(cart))
              => last'.order = Null
      ]_vars

\* Each lesson of ps is flagged inCart exactly when c holds an entry of its id.
FlagsMatchCart(ps, c) ==
    \A i \in 1..Len(ps) : ps[i].inCart <=> (\E k \in 1..Len(c) : c[k].id = ps[i].id)

\* C21: on the catalog page a lesson's inCart flag is set exactly when the
\* cart holds an entry of its id; while the page stays open the flag is set
\* by nothing but an addToCart that went through and cleared by nothing but
\* a removeFromCart that found its entry.
C21_InCartFlag ==
    [][ /\ (page = "catalog" => FlagsMatchCart(products, cart))
        /\ (page' = "catalog" => FlagsMatchCart(products', cart'))
        /\ (page = "catalog" /\ page' = "catalog" /\ last'.op \notin PageEntries)
              => \A i \in 1..Len(products) :
                    /\ (~products[i].inCart /\ products'[i].inCart)
                          => (last'.op = "addToCart" /\ last'.ok)
                    /\ (products[i].inCart /\ ~products'[i].inCart)
                          => (last'.op = "removeFromCart" /\ last'.ok)
      ]_vars

\* On the catalog page a removeFromCart has just taken out the entry of a
\* lesson that an addToCart had flagged, and the lesson is no longer flagged.
C21_Witness ==
    /\ page = "catalog"
    /\ last.op = "removeFromCart" /\ last.ok
    /\ \E i \in 1..Len(products) :
          /\ ~products[i].inCart
          /\ products[i].spaces = InitialProducts[i].spaces
          /\ \A k \in 1..Len(cart) : cart[k].id # products[i].id

\* C22: the order a delayed checkout writes holds what was accepted at
\* submission: the form that passed validation and the cart entries present
\* then, whatever form edits and removeFromCart calls came during the delay.
C22_OrderIsAcceptedState ==
    [][ last'.op = "processCheckout"
        => last'.order = Order(accepted.form, accepted.cart)
      ]_vars

\* The ids of the entries of c.
Ids(c) == {c[k].id : k \in 1..Len(c)}

\* C23: an entry leaves the cart persisted under 'classCart' only by a
\* removeFromCart of that entry or by a completed checkout, and by no page
\* entry, addToCart or goToCart.
C23_NoEntryLost ==
    [][ \A id \in Ids(PersistedCart) :
           id \notin Ids(PersistedCart')
           => \/ Completed(last')
              \/ /\ last'.op = "removeFromCart" /\ last'.ok
                 /\ \E k \in 1..Len(cart) :
                       cart[k].ref = last'.arg.item /\ cart[k].id = id
      ]_vars

\* C24: the cart persisted under 'classCart' holds, for every lesson, no
\* more units than the lesson's original capacity, and every entry of it
\* holds at least one unit.
C24_PersistedWithinCapacity ==
    /\ \A k \in 1..Len(PersistedCart) : PersistedCart[k].cartQuantity >= 1
    /\ \A i \in 1..Len(InitialProducts) :
          SumQuantity(PersistedCart, InitialProducts[i].id) <= InitialProducts[i].spaces

\* The catalog page was entered again, at full capacity and with an empty
\* cart, while the persisted cart holds a lesson's whole capacity.
C24_Witness ==
    /\ page = "catalog"
    /\ last.op \in PageEntries
    /\ cart = <<>>
    /\ \E i \in 1..Len(InitialProducts) :
          /\ products[i].spaces = InitialProducts[i].spaces
          /\ SumQuantity(PersistedCart, InitialProducts[i].id) = InitialProducts[i].spaces

\* C25, as claimed: whenever the in-flight flag is set by an accepted
\* submitCheckout, a state follows in which processCheckout has run,
\* checkoutSuccess is set and the in-flight flag is clear.
C25_CheckoutCompletes ==
    isSubmitting ~> (last.op = "processCheckout" /\ checkoutSuccess /\ ~isSubmitting)

\* C25, amended: whenever the in-flight flag is set by an accepted
\* submitCheckout, a state follows in which the flag is clear, because
\* processCheckout has run and checkoutSuccess is set, or because the page
\* was left or reloaded, which drops the pending callback with the page.
C25_CompletesOrPageLeft ==
    isSubmitting
       ~> /\ ~isSubmitting
          /\ \/ (last.op = "processCheckout" /\ checkoutSuccess)
             \/ last.op \in PageEntries

\* The callback of an accepted submission has run processCheckout over the
\* form of customer Bo: checkoutSuccess is set, nothing is in flight and a
\* new submission would be looked at.
C25_Witness ==
    /\ last.op = "processCheckout"
    /\ last.order.json.customer.name = Str_Bo
    /\ checkoutSuccess
    /\ ~isSubmitting
    /\ timer = 0

====
